---------------------------- MODULE Spec2Model ----------------------------
(***************************************************************************)
(* Model of the Kaleido lexer (src/lib/lexer/lex.rs) and its token type    *)
(* (src/lib/lexer/tokens.rs).                                              *)
(*                                                                         *)
(* A byte is a number in 0..255 and an input is a sequence of bytes.  A    *)
(* nom parser is an operator from the remaining input to a result record   *)
(*   [ok |-> TRUE,  rest |-> remaining input, out |-> output]              *)
(*   [ok |-> FALSE, rest |-> <<>>, out |-> <<>>]       (nom's Err::Error)  *)
(* The lexer uses only nom's `complete` parsers and never `cut`, so        *)
(* Err::Incomplete and Err::Failure do not occur.                          *)
(*                                                                         *)
(* The loop of lex_tokens (many0) is the state machine: an action applies   *)
(* the token parser to the remaining input, one action per arm of many0's  *)
(* match on its result follows, and a last action is the map of            *)
(* Lexer::lexer_tokens that appends Token::EOF.                            *)
(***************************************************************************)
EXTENDS Integers, Sequences, FiniteSets, TLC

VARIABLES
    input,    \* the byte slice handed to Lexer::lexer_tokens
    i,        \* many0's remaining input
    acc,      \* many0's accumulator of tokens
    spans,    \* ghost: for each token of acc, where lex_token took it from
    parsed,   \* many0's match scrutinee: the result of f.parse(i)
    pc,       \* "parse", "match": in many0's loop; "map": lex_tokens
              \* returned; "done": lexer_tokens returned
    result,   \* the IResult: of lex_tokens at "map", of lexer_tokens at "done"
    view,     \* the Tokens value the caller of the views holds
    call      \* ghost: the last call on a view, and what it returned

\* pc goes on after "done": "view" while the caller holds a view, "panic"
\* when a call on it panicked.
vars == <<input, i, acc, spans, parsed, pc, result, view, call>>

lexvars == <<input, i, acc, spans, parsed, result>>

---------------------------------------------------------------------------
(* Bytes and text                                                          *)

\* The printable ASCII characters in code order, from 32 (space) to 126 (~);
\* code 96 is never written as a character.
Printable ==
    << " ", "!", "\"", "#", "$", "%", "&", "'", "(", ")", "*", "+", ",", "-",
       ".", "/", "0", "1", "2", "3", "4", "5", "6", "7", "8", "9", ":", ";",
       "<", "=", ">", "?", "@", "A", "B", "C", "D", "E", "F", "G", "H", "I",
       "J", "K", "L", "M", "N", "O", "P", "Q", "R", "S", "T", "U", "V", "W",
       "X", "Y", "Z", "[", "\\", "]", "^", "_", "(backtick)", "a", "b", "c", "d", "e",
       "f", "g", "h", "i", "j", "k", "l", "m", "n", "o", "p", "q", "r", "s",
       "t", "u", "v", "w", "x", "y", "z", "{", "|", "}", "~" >>

\* The byte of a printable ASCII character.
Ord == [c \in {Printable[j] : j \in DOMAIN Printable} |->
            31 + (CHOOSE j \in DOMAIN Printable : Printable[j] = c)]

\* The bytes of a text given as a sequence of one-character strings.
B(cs) == [j \in 1..Len(cs) |-> Ord[cs[j]]]

Take(s, n) == SubSeq(s, 1, n)
Drop(s, n) == SubSeq(s, n + 1, Len(s))
StartsWith(s, t) == Len(s) >= Len(t) /\ SubSeq(s, 1, Len(t)) = t

Min(S) == CHOOSE x \in S : \A y \in S : x <= y

\* The length of the longest prefix of s whose bytes are all in the class C.
SpanLen(C, s) ==
    IF \A j \in 1..Len(s) : s[j] \in C
    THEN Len(s)
    ELSE Min({j \in 1..Len(s) : s[j] \notin C}) - 1

\* All byte strings of length at most n over an alphabet.
Strs(A, n) == UNION {[1..k -> A] : k \in 0..n}

---------------------------------------------------------------------------
(* nom results and character classes                                       *)

Ok(rest, out) == [ok |-> TRUE, rest |-> rest, out |-> out]
Err == [ok |-> FALSE, rest |-> <<>>, out |-> <<>>]

\* nom's AsChar for u8: is_alpha, is_dec_digit, is_alphanum.
Alpha == (65..90) \cup (97..122)
Digit == 48..57
Alphanumeric == Alpha \cup Digit
\* multispace0: space, tab, carriage return, line feed.
Multispace == {32, 9, 13, 10}

\* A token: its variant and the variant's payload (<<>> for a unit variant).
Tok(t) == [type |-> t, val |-> <<>>]
TokV(t, v) == [type |-> t, val |-> v]

\* tag(t): the input starts with t.
tag(t, s) == IF StartsWith(s, t) THEN Ok(Drop(s, Len(t)), t) ELSE Err

\* take(1usize)
take1(s) == IF Len(s) >= 1 THEN Ok(Drop(s, 1), Take(s, 1)) ELSE Err

\* map(p, f) and map_res(p, f) on the result r of p and, for map_res, the
\* result v of the closure on r.out: an Err of the closure is Err::Error.
map(r_, t) == IF r_.ok THEN Ok(r_.rest, TokV(t, r_.out)) ELSE Err
map_res(r_, v) == IF r_.ok /\ v.ok THEN Ok(r_.rest, v.out) ELSE Err

\* alt over parsers made by the syntax! macro, given as a table of
\* [tag, tok] in the order alt tries them: the first tag that matches wins.
alt_syntax(table, s) ==
    LET hits == {j \in DOMAIN table : StartsWith(s, table[j].tag)}
    IN  IF hits = {} THEN Err
        ELSE LET j == Min(hits)
             IN  Ok(Drop(s, Len(table[j].tag)), Tok(table[j].tok))

Syn(cs, t) == [tag |-> B(cs), tok |-> t]

---------------------------------------------------------------------------
(* operators, punctuation, boolean and logic operations                    *)

\* Mutant: "-" is tried before "->".
OperatorTable_MinusFirst ==
    << Syn(<<"=", "=">>, "Equal"),
       Syn(<<"!", "=">>, "NotEqual"),
       Syn(<<"*", "*">>, "Exp"),
       Syn(<<"+">>, "Plus"),
       Syn(<<"%">>, "Modulo"),
       Syn(<<"-">>, "Minus"),
       Syn(<<"-", ">">>, "FunctionReturn"),
       Syn(<<"/">>, "Div"),
       Syn(<<"*">>, "Mult"),
       Syn(<<"!">>, "Not"),
       Syn(<<">", "=">>, "GreaterThanEqual"),
       Syn(<<"<", "=">>, "LessThanEqual"),
       Syn(<<">">>, "GreaterThan"),
       Syn(<<"<">>, "LessThan"),
       Syn(<<"=">>, "Assign") >>

OperatorTable ==
    << Syn(<<"=", "=">>, "Equal"),
       Syn(<<"!", "=">>, "NotEqual"),
       Syn(<<"*", "*">>, "Exp"),
       Syn(<<"+">>, "Plus"),
       Syn(<<"%">>, "Modulo"),
       Syn(<<"-", ">">>, "FunctionReturn"),
       Syn(<<"-">>, "Minus"),
       Syn(<<"/">>, "Div"),
       Syn(<<"*">>, "Mult"),
       Syn(<<"!">>, "Not"),
       Syn(<<">", "=">>, "GreaterThanEqual"),
       Syn(<<"<", "=">>, "LessThanEqual"),
       Syn(<<">">>, "GreaterThan"),
       Syn(<<"<">>, "LessThan"),
       Syn(<<"=">>, "Assign") >>

lex_operator(s) == alt_syntax(OperatorTable, s)

PunctuationTable ==
    << Syn(<<";">>, "Semicolon"),
       Syn(<<":">>, "Colon"),
       Syn(<<",">>, "Comma"),
       Syn(<<"(">>, "LParenthesis"),
       Syn(<<")">>, "RParenthesis"),
       Syn(<<"{">>, "LBrace"),
       Syn(<<"}">>, "RBrace"),
       Syn(<<"[">>, "LBracket"),
       Syn(<<"]">>, "RBracket") >>

lex_punctuation(s) == alt_syntax(PunctuationTable, s)

BooleanTable ==
    << Syn(<<"&">>, "BooleanAnd"),
       Syn(<<"|">>, "BooleanOr"),
       Syn(<<"^">>, "BooleanXor"),
       Syn(<<"<", "<">>, "LShift"),
       Syn(<<">", ">">>, "RShift") >>

lex_boolean_operation(s) == alt_syntax(BooleanTable, s)

LogicTable ==
    << Syn(<<"&", "&">>, "LogicAnd"),
       Syn(<<"|", "|">>, "LogicOr") >>

lex_logic_operation(s) == alt_syntax(LogicTable, s)

---------------------------------------------------------------------------
(* UTF-8 (std::str::from_utf8 and str::chars)                              *)

Cont == 128..191

\* The number of bytes of the well-formed UTF-8 sequence that starts at
\* s[p], or 0 when none does (the Unicode standard's table 3-7, which is
\* what core::str::from_utf8 accepts).
Utf8Width(s, p) ==
    LET n  == Len(s) - p + 1
        b1 == s[p]
        c(k, lo, hi) == n >= k /\ s[p + k - 1] \in lo..hi
    IN  IF b1 <= 127 THEN 1
        ELSE IF b1 \in 194..223 /\ c(2, 128, 191) THEN 2
        ELSE IF b1 = 224 /\ c(2, 160, 191) /\ c(3, 128, 191) THEN 3
        ELSE IF b1 \in (225..236) \cup (238..239)
                /\ c(2, 128, 191) /\ c(3, 128, 191) THEN 3
        ELSE IF b1 = 237 /\ c(2, 128, 159) /\ c(3, 128, 191) THEN 3
        ELSE IF b1 = 240 /\ c(2, 144, 191) /\ c(3, 128, 191)
                /\ c(4, 128, 191) THEN 4
        ELSE IF b1 \in 241..243 /\ c(2, 128, 191) /\ c(3, 128, 191)
                /\ c(4, 128, 191) THEN 4
        ELSE IF b1 = 244 /\ c(2, 128, 143) /\ c(3, 128, 191)
                /\ c(4, 128, 191) THEN 4
        ELSE 0

\* The Unicode scalar encoded by the w well-formed bytes at s[p].
Utf8Scalar(s, p, w) ==
    CASE w = 1 -> s[p]
      [] w = 2 -> (s[p] - 192) * 64 + (s[p + 1] - 128)
      [] w = 3 -> (s[p] - 224) * 4096 + (s[p + 1] - 128) * 64
                  + (s[p + 2] - 128)
      [] w = 4 -> (s[p] - 240) * 262144 + (s[p + 1] - 128) * 4096
                  + (s[p + 2] - 128) * 64 + (s[p + 3] - 128)

\* str::from_utf8(s) followed by chars(): Ok with the scalars of s in
\* order, or Err (Utf8Error) when s is not well-formed UTF-8.
RECURSIVE Utf8Chars(_, _)
Utf8Chars(s, p) ==
    IF p > Len(s) THEN Ok(<<>>, <<>>)
    ELSE LET w == Utf8Width(s, p)
         IN  IF w = 0 THEN Err
             ELSE LET r == Utf8Chars(s, p + w)
                  IN  IF r.ok
                      THEN Ok(<<>>, <<Utf8Scalar(s, p, w)>> \o r.out)
                      ELSE Err

from_utf8(s) == Utf8Chars(s, 1)

\* A String is its (well-formed UTF-8) bytes.
convert_slice_to_utf8(s) == IF from_utf8(s).ok THEN Ok(<<>>, s) ELSE Err

---------------------------------------------------------------------------
(* strings                                                                 *)

Quote == Ord["\""]
Apostrophe == Ord["'"]
Backslash == Ord["\\"]

\* Mutant: any byte may follow a backslash.
Escapable_Any == 0..255

\* one_of("\"'\\"): the bytes that may follow a backslash.
Escapable == {Quote, Apostrophe, Backslash}

\* string_body and char_body differ only in the byte that ends the body.
\* Ok leaves the input AT the closing delimiter, with the decoded bytes.
RECURSIVE literal_body(_, _)
literal_body(close, s) ==
    LET t == take1(s)
    IN  IF ~t.ok THEN Err
        ELSE LET c1 == t.out[1]
                 i1 == t.rest
             IN  IF c1 = close THEN Ok(s, <<>>)
                 ELSE IF c1 = Backslash
                 THEN IF Len(i1) >= 1 /\ i1[1] \in Escapable
                      THEN LET r == literal_body(close, Drop(i1, 1))
                           IN  IF r.ok THEN Ok(r.rest, <<i1[1]>> \o r.out)
                               ELSE Err
                      ELSE Err
                 ELSE LET r == literal_body(close, i1)
                      IN  IF r.ok THEN Ok(r.rest, <<c1>> \o r.out)
                          ELSE Err

string_body(s) == literal_body(Quote, s)

\* delimited(open, body, close)
delimited_body(open, close, s) ==
    LET o == tag(<<open>>, s)
    IN  IF ~o.ok THEN Err
        ELSE LET b == literal_body(close, o.rest)
             IN  IF ~b.ok THEN Err
                 ELSE LET c == tag(<<close>>, b.rest)
                      IN  IF c.ok THEN Ok(c.rest, b.out) ELSE Err

string_closure(d) == map_res(d, convert_slice_to_utf8(d.out))

input_to_string(s) == string_closure(delimited_body(Quote, Quote, s))

lex_string(s) == map(input_to_string(s), "StringLiteral")

---------------------------------------------------------------------------
(* chars                                                                   *)

\* Mutant: the count of decoded scalars is not checked.
convert_slice_to_char_first(s) ==
    IF Len(s) > 4 \/ Len(s) = 0 THEN Err
    ELSE LET chars == from_utf8(s)
         IN  IF ~chars.ok THEN Err
             ELSE Ok(<<>>, chars.out[1])

\* Ok with the scalar, or Err: InvalidCharByteSequence (length), Utf8Error,
\* CharParseError (not exactly one scalar).
convert_slice_to_char(s) ==
    IF Len(s) > 4 \/ Len(s) = 0 THEN Err
    ELSE LET chars == from_utf8(s)
         IN  IF ~chars.ok THEN Err
             ELSE IF Len(chars.out) # 1 THEN Err
             ELSE Ok(<<>>, chars.out[1])

char_body(s) == literal_body(Apostrophe, s)

char_closure(d) == map_res(d, convert_slice_to_char(d.out))

input_to_char(s) == char_closure(delimited_body(Apostrophe, Apostrophe, s))

lex_char(s) == map(input_to_char(s), "CharLiteral")

---------------------------------------------------------------------------
(* reserved words and identifiers                                          *)

Underscore == Ord["_"]
IdentCont == Alphanumeric \cup {Underscore}

\* Mutant: no alphanumeric is required after the underscores.
ident_underscore_prefix_bare(s) ==
    LET n1 == SpanLen({Underscore}, s)
        n3 == SpanLen(IdentCont, Drop(s, n1))
    IN  IF n1 >= 1 THEN Ok(Drop(s, n1 + n3), Take(s, n1 + n3)) ELSE Err

\* recognize(tuple((many1(tag("_")), alphanumeric1,
\*                  many0(alt((alphanumeric1, tag("_")))))))
ident_underscore_prefix(s) ==
    LET n1 == SpanLen({Underscore}, s)
        n2 == SpanLen(Alphanumeric, Drop(s, n1))
        n3 == SpanLen(IdentCont, Drop(s, n1 + n2))
    IN  IF n1 >= 1 /\ n2 >= 1
        THEN Ok(Drop(s, n1 + n2 + n3), Take(s, n1 + n2 + n3))
        ELSE Err

\* recognize(pair(alpha1, many0(alt((alphanumeric1, tag("_"))))))
ident_alpha_prefix(s) ==
    LET n1 == SpanLen(Alpha, s)
        n2 == SpanLen(IdentCont, Drop(s, n1))
    IN  IF n1 >= 1 THEN Ok(Drop(s, n1 + n2), Take(s, n1 + n2)) ELSE Err

\* The match of lex_ident_or_reserved, in its order.
ReservedTable ==
    << [word |-> B(<<"l", "e", "t">>), tok |-> Tok("Let")],
       [word |-> B(<<"m", "u", "t">>), tok |-> Tok("Mut")],
       [word |-> B(<<"f", "n">>), tok |-> Tok("Function")],
       [word |-> B(<<"i", "f">>), tok |-> Tok("If")],
       [word |-> B(<<"e", "l", "i", "f">>), tok |-> Tok("ElseIf")],
       [word |-> B(<<"e", "l", "s", "e">>), tok |-> Tok("Else")],
       [word |-> B(<<"w", "h", "i", "l", "e">>), tok |-> Tok("While")],
       [word |-> B(<<"r", "e", "t", "u", "r", "n">>), tok |-> Tok("Return")],
       [word |-> B(<<"c", "o", "n", "t", "i", "n", "u", "e">>),
        tok |-> Tok("Continue")],
       [word |-> B(<<"b", "r", "e", "a", "k">>), tok |-> Tok("Break")],
       [word |-> B(<<"t", "r", "u", "e">>), tok |-> TokV("BoolLiteral", TRUE)],
       [word |-> B(<<"f", "a", "l", "s", "e">>),
        tok |-> TokV("BoolLiteral", FALSE)] >>

\* Mutant: a text that starts with a reserved word is that word.
reserved_or_ident_prefix(syntax) ==
    LET hits == {j \in DOMAIN ReservedTable :
                    StartsWith(syntax, ReservedTable[j].word)}
    IN  IF hits = {} THEN TokV("Ident", syntax)
        ELSE ReservedTable[Min(hits)].tok

\* The closure of lex_ident_or_reserved: the token of a recognized text.
reserved_or_ident(syntax) ==
    LET hits == {j \in DOMAIN ReservedTable : ReservedTable[j].word = syntax}
    IN  IF hits = {} THEN TokV("Ident", syntax)
        ELSE ReservedTable[Min(hits)].tok

\* alt((ident_underscore_prefix, ident_alpha_prefix))
alt2(u, a) == IF u.ok THEN u ELSE a

ident_token(t) == IF t.ok THEN Ok(<<>>, reserved_or_ident(t.out)) ELSE Err

ident_closure(d) == map_res(d, ident_token(convert_slice_to_utf8(d.out)))

lex_ident_or_reserved(s) ==
    ident_closure(alt2(ident_underscore_prefix(s), ident_alpha_prefix(s)))

---------------------------------------------------------------------------
(* numbers                                                                 *)

Minus == Ord["-"]
Dot == Ord["."]
Plus == Ord["+"]

\* A sequence of digit bytes as digit values without leading zeros
\* (<<0>> for zero).
Magnitude(ds) ==
    LET z == SpanLen({Ord["0"]}, ds)
        k == IF z = Len(ds) THEN Len(ds) - 1 ELSE z
    IN  [j \in 1..(Len(ds) - k) |-> ds[j + k] - Ord["0"]]

\* a <= b for magnitudes (digit values without leading zeros).
MagLeq(a, b) ==
    \/ Len(a) < Len(b)
    \/ /\ Len(a) = Len(b)
       /\ \/ a = b
          \/ \E j \in 1..Len(a) :
                /\ a[j] < b[j]
                /\ \A m \in 1..(j - 1) : a[m] = b[m]

\* i64::MAX = 9223372036854775807 and -i64::MIN = 9223372036854775808.
I64MaxMag == <<9, 2, 2, 3, 3, 7, 2, 0, 3, 6, 8, 5, 4, 7, 7, 5, 8, 0, 7>>
I64MinMag == <<9, 2, 2, 3, 3, 7, 2, 0, 3, 6, 8, 5, 4, 7, 7, 5, 8, 0, 8>>

\* An i64 is [neg, mag]: its sign and its magnitude; zero is never neg.
I64(neg, mag) == [neg |-> neg /\ mag # <<0>>, mag |-> mag]

\* Mutant: the range of i64 is not checked.
parse_i64_unchecked(text) ==
    LET signed == Len(text) >= 1 /\ text[1] \in {Minus, Plus}
        ds     == IF signed THEN Drop(text, 1) ELSE text
    IN  IF Len(ds) = 0 \/ SpanLen(Digit, ds) # Len(ds) THEN Err
        ELSE Ok(<<>>, I64(signed /\ text[1] = Minus, Magnitude(ds)))

\* str::parse::<i64>: an optional sign, then one or more digits; Err when
\* the text is empty, holds another byte (InvalidDigit) or its value is
\* outside i64 (PosOverflow, NegOverflow).
parse_i64(text) ==
    LET signed == Len(text) >= 1 /\ text[1] \in {Minus, Plus}
        ds     == IF signed THEN Drop(text, 1) ELSE text
        neg    == signed /\ text[1] = Minus
    IN  IF Len(ds) = 0 \/ SpanLen(Digit, ds) # Len(ds) THEN Err
        ELSE LET mag == Magnitude(ds)
             IN  IF MagLeq(mag, IF neg THEN I64MinMag ELSE I64MaxMag)
                 THEN Ok(<<>>, I64(neg, mag))
                 ELSE Err

\* `?`: an Err is returned, an Ok's value goes on.
try(u, v) == IF u.ok THEN v ELSE Err

parse_i64_of(u) == try(u, parse_i64(u.out))

convert_slice_to_number(s) == parse_i64_of(convert_slice_to_utf8(s))

\* pair(opt(char('-')), many1(digit1)): digit1 takes every digit, so
\* many1's second try fails and many1 returns the one run.
signed_digits(s) ==
    LET n0 == IF Len(s) >= 1 /\ s[1] = Minus THEN 1 ELSE 0
        n1 == SpanLen(Digit, Drop(s, n0))
    IN  IF n1 >= 1 THEN Ok(Drop(s, n0 + n1), Take(s, n0 + n1)) ELSE Err

number_closure(d) == map_res(d, convert_slice_to_number(d.out))

input_to_number(s) == number_closure(signed_digits(s))

lex_number(s) == map(input_to_number(s), "NumericLiteral")

---------------------------------------------------------------------------
(* decimals                                                                *)

\* A sequence of digit bytes as the digits of a fraction, without
\* trailing zeros.
Fraction(ds) ==
    LET nz == {j \in 1..Len(ds) : ds[j] # Ord["0"]}
        n  == IF nz = {} THEN 0 ELSE CHOOSE j \in nz : \A m \in nz : m <= j
    IN  [j \in 1..n |-> ds[j] - Ord["0"]]

\* str::parse::<f64> on sign, digits, '.', digits (the texts the recognizer
\* passes; any other text is Err here).  The value is kept as the exact
\* decimal [neg, int, frac]; the rounding to the nearest f64 is not
\* modelled.  A text of this shape never fails to parse.
parse_f64(text) ==
    LET signed == Len(text) >= 1 /\ text[1] \in {Minus, Plus}
        ds     == IF signed THEN Drop(text, 1) ELSE text
        n1     == SpanLen(Digit, ds)
        fs     == Drop(ds, n1 + 1)
    IN  IF n1 >= 1 /\ Len(ds) >= n1 + 2 /\ ds[n1 + 1] = Dot
           /\ SpanLen(Digit, fs) = Len(fs)
        THEN Ok(<<>>, [neg  |-> signed /\ text[1] = Minus,
                       int  |-> Magnitude(Take(ds, n1)),
                       frac |-> Fraction(fs)])
        ELSE Err

parse_f64_of(u) == try(u, parse_f64(u.out))

convert_slice_to_decimal(s) == parse_f64_of(convert_slice_to_utf8(s))

\* recognize(tuple((pair(opt(char('-')), many1(digit1)), char('.'),
\*                  many1(digit1))))
signed_digits_dot_digits(s) ==
    LET p  == signed_digits(s)
        n1 == Len(s) - Len(p.rest)
        d  == tag(<<Dot>>, p.rest)
        n2 == SpanLen(Digit, d.rest)
    IN  IF p.ok /\ d.ok /\ n2 >= 1
        THEN Ok(Drop(s, n1 + 1 + n2), Take(s, n1 + 1 + n2))
        ELSE Err

decimal_closure(d) == map_res(d, convert_slice_to_decimal(d.out))

input_to_decimal(s) == decimal_closure(signed_digits_dot_digits(s))

lex_decimal(s) == map(input_to_decimal(s), "DecimalLiteral")

---------------------------------------------------------------------------
(* meta and the concrete lexer                                             *)

unit(r_, t) == IF r_.ok THEN Ok(r_.rest, Tok(t)) ELSE Err

\* Mutant: the fallback looks at the next byte without taking it.
lex_illegal_peek(s) == unit(IF Len(s) >= 1 THEN Ok(s, Take(s, 1)) ELSE Err,
                            "Illegal")

\* Mutant: the fallback takes the whole run up to the next whitespace.
lex_illegal_run(s) ==
    unit(IF Len(s) >= 1
         THEN Ok(Drop(s, SpanLen((0..255) \ Multispace, s)), Take(s, 1))
         ELSE Err,
         "Illegal")

lex_illegal(s) == unit(take1(s), "Illegal")

\* Mutant: the operators are tried before the numbers.
LexTokenOrder_OperatorFirst ==
    << "lex_operator", "lex_decimal", "lex_number", "lex_punctuation",
       "lex_logic_operation", "lex_boolean_operation", "lex_char",
       "lex_ident_or_reserved", "lex_string", "lex_illegal" >>

\* Mutant: the integer recognizer is tried before the decimal one.
LexTokenOrder_NumberFirst ==
    << "lex_number", "lex_decimal", "lex_punctuation", "lex_logic_operation",
       "lex_boolean_operation", "lex_operator", "lex_char",
       "lex_ident_or_reserved", "lex_string", "lex_illegal" >>

\* The recognizers of lex_token's alt, in the order alt tries them.
LexTokenOrder ==
    << "lex_decimal", "lex_number", "lex_punctuation", "lex_logic_operation",
       "lex_boolean_operation", "lex_operator", "lex_char",
       "lex_ident_or_reserved", "lex_string", "lex_illegal" >>

Recognizer(name, s) ==
    CASE name = "lex_decimal" -> lex_decimal(s)
      [] name = "lex_number" -> lex_number(s)
      [] name = "lex_punctuation" -> lex_punctuation(s)
      [] name = "lex_logic_operation" -> lex_logic_operation(s)
      [] name = "lex_boolean_operation" -> lex_boolean_operation(s)
      [] name = "lex_operator" -> lex_operator(s)
      [] name = "lex_char" -> lex_char(s)
      [] name = "lex_ident_or_reserved" -> lex_ident_or_reserved(s)
      [] name = "lex_string" -> lex_string(s)
      [] name = "lex_illegal" -> lex_illegal(s)

\* The syntax! table of a recognizer of lex_token (<<>>: it has none).
TableOf(name) ==
    CASE name = "lex_punctuation" -> PunctuationTable
      [] name = "lex_logic_operation" -> LogicTable
      [] name = "lex_boolean_operation" -> BooleanTable
      [] name = "lex_operator" -> OperatorTable
      [] OTHER -> <<>>

\* alt: the result of the first parser that succeeds, else Err::Error.
alt(rs) ==
    IF \A j \in DOMAIN rs : ~rs[j].ok THEN Err
    ELSE rs[Min({j \in DOMAIN rs : rs[j].ok})]

lex_token(s) ==
    alt([j \in DOMAIN LexTokenOrder |-> Recognizer(LexTokenOrder[j], s)])

multispace0(s) == Drop(s, SpanLen(Multispace, s))

\* delimited(multispace0, p, multispace0) on the result t of p.  `len`
\* (ghost) is the count of bytes p consumed of its input s1.
delimited_ws(s1, t) ==
    IF t.ok
    THEN [ok |-> TRUE, rest |-> multispace0(t.rest), out |-> t.out,
          len |-> Len(s1) - Len(t.rest)]
    ELSE [ok |-> FALSE, rest |-> <<>>, out |-> <<>>, len |-> 0]

lex_token_at(s1) == delimited_ws(s1, lex_token(s1))

\* delimited(multispace0, lex_token, multispace0): the parser many0 repeats.
lex_tokens_item(s) == lex_token_at(multispace0(s))

\* Lexer::lexer_tokens' map over the IResult of lex_tokens: Token::EOF is
\* appended to the tokens of an Ok, an Err is passed on.
\* Mutant: the tokens of lex_tokens are returned as they are.
lexer_tokens_map_bare(res) == res

lexer_tokens_map(res) ==
    IF res.ok THEN Ok(res.rest, res.out \o <<Tok("EOF")>>) ELSE Err

---------------------------------------------------------------------------
(* The inputs of the tests of lex.rs                                       *)

test_punctuation_input ==
    B(<<"=", "+", "(", ")", "{", "}", ",", ";">>)

test_operators_input ==
    B(<<"+", " ", "-", " ", "/", " ", "*", " ", "=", "=", " ", "*", "*",
    " ", "!", "=", " ", ">", "=", " ", "<", "=", " ", ">", " ", "<", " ",
    "!", " ", "%", " ", "-", ">">>)

test_statements_input ==
    B(<<"i", "f", " ", "e", "l", "s", "e", " ", "e", "l", "i", "f", " ",
    "w", "h", "i", "l", "e">>)

test_reserved_keywords_input ==
    B(<<"f", "n", " ", "r", "e", "t", "u", "r", "n", " ", "b", "r", "e",
    "a", "k", " ", "c", "o", "n", "t", "i", "n", "u", "e", " ", "l", "e",
    "t", " ", "m", "u", "t">>)

test_logic_operations_input ==
    B(<<"&", "&", " ", "|", "|">>)

test_boolean_operations_input ==
    B(<<"&", " ", "^", " ", "|", " ", "<", "<", " ", ">", ">">>)

test_strings_input ==
    B(<<"\"", "f", "o", "o", "\"", " ", "\"", "B", "a", "R", "\"", " ",
    "\"", "b", "A", "Z", "\"", " ", "\"">>) \o <<195, 132>> \o B(<<"p",
    "f", "e", "l", "\"", " ", "\"", "e", "n", "t", "r">>) \o <<195,
    169>> \o B(<<"e", "\"", " ", "\"", "I", " ">>) \o <<226, 157,
    164>> \o B(<<" ", "C", "o", "f", "f", "e", "e", "\"", " ", "\"", "2",
    "2", "\"", " ", "\"", "5", "\\", "'", "2", "\\", "\"", "\"", " ", "\"",
    "1", "0", " ", "\\", "\\", " ", "5", " ", "=", " ", "5", "\"", " ",
    "\"", "\"", " ", "\"", "S", "t", "r", "a">>) \o <<195,
    159>> \o B(<<"e", "\"">>)

test_char_input ==
    B(<<"'", "a", "'", " ", "'", "b", "'", " ", "'", "c", "'", " ",
    "'">>) \o <<226, 157, 164>> \o B(<<"'", " ", "'", "\\", "'", "'", " ",
    "'", "\\", "\"", "'", " ", "'", "\\", "\\", "'", " ", "'", "8", "'",
    " ", "'">>) \o <<195, 159>> \o B(<<"'">>)

test_bool_input ==
    B(<<"t", "r", "u", "e", " ", "f", "a", "l", "s", "e">>)

test_numeric_input ==
    B(<<"1", "2", "3", " ", "3", "4", "5", " ", "1", "1", "1", "1", "1",
    "1", " ", "-", "3", "3", " ", "-", "5">>)

test_decimal_input ==
    B(<<"1", "2", "3", ".", "3", "4", "5", " ", "1", "1", ".", "1", "1",
    " ", "1", ".", "2", "3", " ", "-", "1", ".", "1", "1", " ", "-", "3",
    "4", "5", ".", "5", "4", "3">>)

test_illegal_input ==
    B(<<"\"", " ", "'", "'", " ", "_">>)

test_empty_input ==
    <<>>

test_ident_names_input ==
    B(<<"_", "t", "e", "s", "t", "_", " ", "f", "o", "o", "2", "b", "a",
    "r", " ", "b", "a", "r", "_", "_", " ", "_", "_", "b", "a", "z", " ",
    "_", "4", "_", "f", "o", "0", " ", "_", "2", "f", "o", "o", "4", "b",
    "a", "z", "_">>)

test_mixed_numbers_input ==
    B(<<"1", "1", " ", "1", ".", "3", "4", " ", "-", "4", " ", "-", "2",
    ".", "2", " ", "8", "8", " ", "4", ".", "4", " ", "-", "1", "7", " ",
    "2", " ", "1", ".", "4", "4">>)

test_mixed_logic_boolean_operators_input ==
    B(<<"&", " ", "&", "&", " ", "|", " ", "|", "|", " ", "&", " ", "|",
    " ", "&", "&", " ", "|">>)

test_code_sequence1_input ==
    <<10>> \o B(<<" ", " ", " ", " ", " ", " ", " ", " ", "f", "n", " ",
    "f", "o", "o", "(", "b", "a", "r", ":", " ", "b", "a", "z", ")", " ",
    "-", ">", " ", "i", "n", "t", " ", "{">>) \o <<10>> \o B(<<" ", " ",
    " ", " ", " ", " ", " ", " ", " ", " ", " ", " ", "l", "e", "t", " ",
    "a", " ", "=", " ", "5", " ", "+", " ", "3",
    ";">>) \o <<10>> \o B(<<" ", " ", " ", " ", " ", " ", " ", " ", " ",
    " ", " ", " ", "l", "e", "t", " ", "b", " ", "=", " ", "a", " ", "*",
    " ", "0", ".", "5", ";">>) \o <<10>> \o B(<<" ", " ", " ", " ", " ",
    " ", " ", " ", " ", " ", " ", " ", "r", "e", "t", "u", "r", "n", " ",
    "b", ";">>) \o <<10>> \o B(<<" ", " ", " ", " ", " ", " ", " ", " ",
    "}">>) \o <<10>> \o B(<<" ", " ", " ", " ", " ", " ", " ", " ">>)

test_code_sequence2_input ==
    <<10>> \o B(<<" ", " ", " ", " ", " ", " ", " ", " ", "w", "h", "i",
    "l", "e", "(", "a", " ", ">", "=", " ", "2", "0", ")", " ",
    "{">>) \o <<10>> \o B(<<" ", " ", " ", " ", " ", " ", " ", " ", " ",
    " ", " ", " ", "a", " ", "=", " ", "a", " ", "+", " ", "2", ".", "0",
    ";">>) \o <<10>> \o B(<<" ", " ", " ", " ", " ", " ", " ", " ", " ",
    " ", " ", " ", "i", "f", " ", "(", "b", "/", "a", " ", "<", "=", " ",
    "1", ".", "0", ")", " ", "{">>) \o <<10>> \o B(<<" ", " ", " ", " ",
    " ", " ", " ", " ", " ", " ", " ", " ", " ", " ", " ", " ", "b", "r",
    "e", "a", "k", ";">>) \o <<10>> \o B(<<" ", " ", " ", " ", " ", " ",
    " ", " ", " ", " ", " ", " ", "}">>) \o <<10>> \o B(<<" ", " ", " ",
    " ", " ", " ", " ", " ", "}">>) \o <<10>> \o B(<<" ", " ", " ", " ",
    " ", " ", " ", " ">>)

TestInputs ==
    {test_punctuation_input, test_operators_input, test_statements_input,
    test_reserved_keywords_input, test_logic_operations_input,
    test_boolean_operations_input, test_strings_input, test_char_input,
    test_bool_input, test_numeric_input, test_decimal_input,
    test_illegal_input, test_empty_input, test_ident_names_input,
    test_mixed_numbers_input, test_mixed_logic_boolean_operators_input,
    test_code_sequence1_input, test_code_sequence2_input}


---------------------------------------------------------------------------
(* Inputs                                                                  *)

MaxLen == 4

\* Bytes that start, continue or break every kind of token.
MixedAlphabet ==
    {Quote, Apostrophe, Backslash, Underscore, Minus, Ord["a"], Ord["1"],
     Ord[" "]}

MixedInputs == Strs(MixedAlphabet, MaxLen) \cup TestInputs

MaxNumLen == 5

NumAlphabet == {Minus, Dot, Ord["0"], Ord["5"], Ord[" "]}

\* i64::MAX, the two numbers after it, and twenty nines.
BigLiterals ==
    { B(<<"9", "2", "2", "3", "3", "7", "2", "0", "3", "6", "8", "5", "4",
          "7", "7", "5", "8", "0", "7">>),
      B(<<"9", "2", "2", "3", "3", "7", "2", "0", "3", "6", "8", "5", "4",
          "7", "7", "5", "8", "0", "8">>),
      B(<<"9", "2", "2", "3", "3", "7", "2", "0", "3", "6", "8", "5", "4",
          "7", "7", "5", "8", "0", "9">>),
      B(<<"9", "9", "9", "9", "9", "9", "9", "9", "9", "9", "9", "9", "9",
          "9", "9", "9", "9", "9", "9", "9">>) }

BigInputs ==
    { pre \o big \o suf :
        pre \in {<<>>, B(<<"-">>), B(<<"0">>), B(<<"5", " ">>)},
        big \in BigLiterals,
        suf \in {<<>>, B(<<".", "5">>), B(<<" ", "5">>), B(<<".">>)} }

\* The texts of the numeric disambiguation examples.
NumberExamples ==
    { B(<<"1", "2", "3">>), B(<<"-", "5">>),
      B(<<"1", "2", "3", ".", "4", "5", "6">>), B(<<"-", "5", ".", "5">>),
      B(<<"5", "-", "3">>) }

NumInputs ==
    Strs(NumAlphabet, MaxNumLen) \cup BigInputs \cup NumberExamples
        \cup {test_numeric_input, test_decimal_input, test_mixed_numbers_input}

MaxOpLen == 3

OpAlphabet ==
    {Ord["="], Ord["!"], Ord["*"], Ord[">"], Ord["<"], Ord["-"], Ord["&"],
     Ord["|"], Ord[" "]}

OpInputs ==
    Strs(OpAlphabet, MaxOpLen)
        \cup {test_operators_input, test_logic_operations_input,
              test_boolean_operations_input, test_punctuation_input,
              test_mixed_logic_boolean_operators_input}

MaxIdLen == 4

IdAlphabet == {Ord["l"], Ord["e"], Ord["t"], Underscore, Ord["1"], Ord[" "]}

\* Every reserved word, and lettuce, with something before and after it.
ReservedInputs ==
    { pre \o w \o suf :
        pre \in {<<>>, B(<<"_">>), B(<<"x">>), B(<<"_", " ">>), B(<<"1">>)},
        w \in {ReservedTable[j].word : j \in DOMAIN ReservedTable}
                \cup {B(<<"l", "e", "t", "t", "u", "c", "e">>)},
        suf \in {<<>>, B(<<"s">>), B(<<"_">>), B(<<"1">>), B(<<" ", "x">>),
                 B(<<"+">>)} }

IdInputs ==
    Strs(IdAlphabet, MaxIdLen) \cup ReservedInputs
        \cup {test_statements_input, test_reserved_keywords_input,
              test_bool_input, test_ident_names_input, test_illegal_input}

MaxSignLen == 4

\* The sign, the rest of an arrow, a digit, the dot and a blank.
SignAlphabet == {Ord["-"], Ord[">"], Ord["5"], Ord["."], Ord[" "]}

SignInputs ==
    Strs(SignAlphabet, MaxSignLen) \cup BigInputs \cup NumberExamples

MaxStrLen == 4

\* The quote, the apostrophe, the backslash, a letter, and the two bytes
\* of U+00E4.
StrAlphabet == {Quote, Apostrophe, Backslash, Ord["a"], 195, 164}

MaxUnits == 3

\* What a string body is made of: a plain byte, the three escapes, a
\* backslash before another byte, a two-byte scalar and half of one.
BodyUnits ==
    {B(<<"a">>), <<Backslash, Quote>>, <<Backslash, Apostrophe>>,
     <<Backslash, Backslash>>, <<Backslash, Ord["a"]>>, <<195, 164>>, <<195>>}

RECURSIVE Bodies(_)
Bodies(n) ==
    IF n = 0 THEN {<<>>}
    ELSE LET shorter == Bodies(n - 1)
         IN  shorter \cup {u \o b : u \in BodyUnits, b \in shorter}

QuotedInputs ==
    { <<Quote>> \o b \o <<Quote>> \o suf :
        b \in Bodies(MaxUnits), suf \in {<<>>, B(<<"a">>)} }

StrInputs ==
    Strs(StrAlphabet, MaxStrLen) \cup QuotedInputs \cup {test_strings_input}

MaxCharLen == 5

\* A letter, a continuation byte, and the lead bytes of 2, 3 and 4 byte
\* scalars.
CharAlphabet == {Ord["a"], 164, 195, 226, 240}

CharExamples ==
    {test_char_input,
     <<Apostrophe, 226, 157, 164, Apostrophe>>,
     <<Apostrophe, Backslash, Apostrophe, Apostrophe>>,
     <<Apostrophe, Backslash, Backslash, Apostrophe>>,
     <<Apostrophe, Backslash, Quote, Apostrophe>>,
     <<Apostrophe, Backslash, Apostrophe, Ord["a"], Apostrophe>>,
     <<Apostrophe, Backslash, Ord["a"], Apostrophe>>,
     <<Apostrophe, 237, 160, 128, Apostrophe>>,
     <<Apostrophe, 192, 164, Apostrophe>>,
     <<Apostrophe, 224, 164, 164, Apostrophe>>,
     <<Apostrophe, 224, 128, 164, Apostrophe>>,
     <<Apostrophe, 244, 144, 128, 128, Apostrophe>>,
     <<Apostrophe, 244, 143, 191, 191, Apostrophe>>}

CharInputs ==
    { <<Apostrophe>> \o b \o <<Apostrophe>> :
        b \in Strs(CharAlphabet, MaxCharLen) }
        \cup CharExamples

---------------------------------------------------------------------------
(* Tokens: the view of a token slice (tokens.rs)                           *)

\* A Tokens value.  base is a ghost: how far the slice `tokens` starts
\* behind the start of the slice that was given to Tokens::new.
TokensView(tokens, start, end, base) ==
    [tokens |-> tokens, start |-> start, end |-> end, base |-> base]

NoView == TokensView(<<>>, 0, 0, 0)

\* What a call leaves: the views it returned, or a panic.
Returned(vs) == [panicked |-> FALSE, out |-> vs]
Panic == [panicked |-> TRUE, out |-> <<>>]

\* Tokens::new
Tokens_new(init) == TokensView(init, 0, Len(init), 0)

\* Mutant: take keeps the end of the view it is called on.
Tokens_take_end_kept(self, count) ==
    IF count > Len(self.tokens) THEN Panic
    ELSE Returned(<<TokensView(Take(self.tokens, count), 0, self.end,
                               self.base)>>)

\* InputTake::take: &self.tokens[..count] panics when count > len.
Tokens_take(self, count) ==
    IF count > Len(self.tokens) THEN Panic
    ELSE Returned(<<TokensView(Take(self.tokens, count), 0, count,
                               self.base)>>)

\* Mutant: the pair is returned as (suffix, prefix).
Tokens_take_split_swapped(self, count) ==
    IF count > Len(self.tokens) THEN Panic
    ELSE LET prefix == Take(self.tokens, count)
             suffix == Drop(self.tokens, count)
         IN  Returned(<<TokensView(suffix, 0, Len(suffix),
                                   self.base + count),
                        TokensView(prefix, 0, Len(prefix), self.base)>>)

\* InputTake::take_split: split_at panics when count > len.
Tokens_take_split(self, count) ==
    IF count > Len(self.tokens) THEN Panic
    ELSE LET prefix == Take(self.tokens, count)
             suffix == Drop(self.tokens, count)
         IN  Returned(<<TokensView(prefix, 0, Len(prefix), self.base),
                        TokensView(suffix, 0, Len(suffix),
                                   self.base + count)>>)

\* Mutant: the end of the sliced view is counted from self.end.
Tokens_slice_wide(self, a, b) ==
    IF a > b \/ b > Len(self.tokens) THEN Panic
    ELSE Returned(<<TokensView(SubSeq(self.tokens, a + 1, b),
                               self.start + a, self.end + b,
                               self.base + a)>>)

\* Slice<Range<usize>>: &self.tokens[a..b] panics when a > b or b > len.
Tokens_slice(self, a, b) ==
    IF a > b \/ b > Len(self.tokens) THEN Panic
    ELSE Returned(<<TokensView(SubSeq(self.tokens, a + 1, b),
                               self.start + a, self.start + b,
                               self.base + a)>>)

\* Slice<RangeFrom<usize>>: self.slice(a..self.end - self.start).  The
\* subtraction of usize panics below zero in a debug build and wraps in a
\* release build, where the slice then panics on its end.
Tokens_slice_from(self, a) ==
    IF self.end < self.start THEN Panic
    ELSE Tokens_slice(self, a, self.end - self.start)

\* Slice<RangeTo<usize>>: self.slice(0..b)
Tokens_slice_to(self, b) == Tokens_slice(self, 0, b)

\* Slice<RangeFull>
Tokens_slice_full(self) ==
    Returned(<<TokensView(self.tokens, self.start, self.end, self.base)>>)

NoCall ==
    [op |-> "none", a |-> 0, b |-> 0, self |-> NoView, out |-> <<>>,
     panicked |-> FALSE]

MaxViewLen == 3

\* A letter, a semicolon and a blank.
ViewAlphabet == {Ord["a"], Ord[";"], Ord[" "]}

ViewInputs == Strs(ViewAlphabet, MaxViewLen)

\* The counts and range bounds the calls are made with: every one within
\* the longest token sequence, and one beyond it.
Indices == 0..(MaxViewLen + 2)

---------------------------------------------------------------------------
(* The state machine: lex_tokens' many0 loop, then lexer_tokens' map       *)

InitWith(S) ==
    /\ input \in S
    /\ i = input
    /\ acc = <<>>
    /\ spans = <<>>
    /\ parsed = Err
    /\ pc = "parse"
    /\ result = Err
    /\ view = NoView
    /\ call = NoCall

Init == InitWith(MixedInputs)

\* many0: match f.parse(i.clone())
many0_parse ==
    /\ pc = "parse"
    /\ parsed' = lex_tokens_item(i)
    /\ pc' = "match"
    /\ UNCHANGED <<input, i, acc, spans, result>>
    /\ UNCHANGED <<view, call>>

\* many0: Err(Err::Error(_)) => return Ok((i, acc))
many0_error ==
    /\ pc = "match"
    /\ ~parsed.ok
    /\ result' = Ok(i, acc)
    /\ pc' = "map"
    /\ UNCHANGED <<input, i, acc, spans, parsed>>
    /\ UNCHANGED <<view, call>>

\* many0: Ok((i1, o)) => a parser that consumed nothing is
\* Err::Error(Many0); otherwise i = i1, acc.push(o), and the loop goes on.
many0_ok ==
    /\ pc = "match"
    /\ parsed.ok
    /\ IF Len(parsed.rest) = Len(i)
       THEN /\ result' = Err
            /\ pc' = "map"
            /\ UNCHANGED <<i, acc, spans>>
       ELSE /\ i' = parsed.rest
            /\ acc' = Append(acc, parsed.out)
            /\ spans' = Append(spans,
                   [at  |-> Len(input) - Len(multispace0(i)),
                    len |-> parsed.len])
            /\ pc' = "parse"
            /\ UNCHANGED result
    /\ UNCHANGED <<input, parsed>>
    /\ UNCHANGED <<view, call>>

lexer_tokens ==
    /\ pc = "map"
    /\ result' = lexer_tokens_map(result)
    /\ pc' = "done"
    /\ UNCHANGED <<input, i, acc, spans, parsed>>
    /\ UNCHANGED <<view, call>>

Next == many0_parse \/ many0_error \/ many0_ok \/ lexer_tokens

Spec == Init /\ [][Next]_vars

\* The same machine on inputs made of signs, digits and dots.
NumSpec == InitWith(NumInputs) /\ [][Next]_vars

\* The same machine on inputs made of operator characters.
OpSpec == InitWith(OpInputs) /\ [][Next]_vars

\* The same machine on inputs made of string literals and their pieces.
StrSpec == InitWith(StrInputs) /\ [][Next]_vars

\* The same machine on character literals with bodies of every length.
CharSpec == InitWith(CharInputs) /\ [][Next]_vars

\* The same machine on inputs made of signs, arrows and digits.
SignSpec == InitWith(SignInputs) /\ [][Next]_vars

\* The same machine on inputs made of identifier characters.
IdSpec == InitWith(IdInputs) /\ [][Next]_vars

---------------------------------------------------------------------------
(* The caller of Tokens: a view of the lexer's tokens, then any sequence   *)
(* of take, take_split and slice, each on the view the last call returned. *)

new ==
    /\ pc = "done"
    /\ view' = Tokens_new(result.out)
    /\ call' = [NoCall EXCEPT !.op = "new", !.out = <<view'>>]
    /\ pc' = "view"
    /\ UNCHANGED lexvars

\* The record of the call op(a, b) on the view self, which left r.
Called(op, a, b, self, r) ==
    [op |-> op, a |-> a, b |-> b, self |-> self, out |-> r.out,
     panicked |-> r.panicked]

\* The view the caller holds after a call that left r: the pick-th of the
\* views returned, or the one it had when the call panicked.
Held(self, r, pick) == IF r.panicked THEN self ELSE r.out[pick]

\* Where the caller is after a call that left r.
After(r) == IF r.panicked THEN "panic" ELSE "view"

take ==
    /\ pc = "view"
    /\ \E count \in Indices :
          LET r == Tokens_take(view, count)
          IN  /\ call' = Called("take", count, 0, view, r)
              /\ view' = Held(view, r, 1)
              /\ pc' = After(r)
    /\ UNCHANGED lexvars

take_split ==
    /\ pc = "view"
    /\ \E count \in Indices, pick \in 1..2 :
          LET r == Tokens_take_split(view, count)
          IN  /\ call' = Called("take_split", count, 0, view, r)
              /\ view' = Held(view, r, pick)
              /\ pc' = After(r)
    /\ UNCHANGED lexvars

slice ==
    /\ pc = "view"
    /\ \E a \in Indices, b \in Indices :
          LET r == Tokens_slice(view, a, b)
          IN  /\ call' = Called("slice", a, b, view, r)
              /\ view' = Held(view, r, 1)
              /\ pc' = After(r)
    /\ UNCHANGED lexvars

slice_from ==
    /\ pc = "view"
    /\ \E a \in Indices :
          LET r == Tokens_slice_from(view, a)
          IN  /\ call' = Called("slice_from", a, 0, view, r)
              /\ view' = Held(view, r, 1)
              /\ pc' = After(r)
    /\ UNCHANGED lexvars

slice_to ==
    /\ pc = "view"
    /\ \E b \in Indices :
          LET r == Tokens_slice_to(view, b)
          IN  /\ call' = Called("slice_to", 0, b, view, r)
              /\ view' = Held(view, r, 1)
              /\ pc' = After(r)
    /\ UNCHANGED lexvars

slice_full ==
    /\ pc = "view"
    /\ LET r == Tokens_slice_full(view)
       IN  /\ call' = Called("slice_full", 0, 0, view, r)
           /\ view' = Held(view, r, 1)
           /\ pc' = After(r)
    /\ UNCHANGED lexvars

ViewNext ==
    \/ Next
    \/ new
    \/ take
    \/ take_split
    \/ slice
    \/ slice_from
    \/ slice_to
    \/ slice_full

\* The lexer on short inputs, and then the views of its tokens.
ViewSpec == InitWith(ViewInputs) /\ [][ViewNext]_vars

---------------------------------------------------------------------------
(* What the claims speak of                                                *)

Done == pc = "done"

\* The input from the byte where lex_token took the k-th token.
TextAt(k) == Drop(input, spans[k].at)

\* The scan position after the k-th token and the whitespace behind it.
AfterToken(k) ==
    IF k < Len(spans) THEN Drop(input, spans[k + 1].at)
    ELSE multispace0(Drop(input, spans[k].at + spans[k].len))

\* No recognizer that lex_token tries before lex_illegal succeeds on s.
NoRecognizer(s) ==
    \A j \in DOMAIN LexTokenOrder :
        LexTokenOrder[j] # "lex_illegal" => ~Recognizer(LexTokenOrder[j], s).ok

---------------------------------------------------------------------------
(* C1: for every input lexer_tokens terminates and returns Ok.  Every      *)
(* step of the code strictly lowers Variant, a natural number, so no run   *)
(* goes on for ever; the result at the return is never an error; and every *)
(* iteration that emits a token consumes at least one byte of input.       *)
Variant ==
    CASE pc = "parse" -> 3 * Len(i) + 4
      [] pc = "match" -> 3 * Len(i) + 3
      [] pc = "map" -> 1
      [] pc = "done" -> 0

C1_TerminatesOk ==
    /\ [](Done => result.ok)
    /\ [][/\ Variant' < Variant
          /\ pc = "match" /\ pc' = "parse" =>
                /\ Len(acc') = Len(acc) + 1
                /\ Len(i') < Len(i)]_vars

C1_Witness ==
    /\ Done
    /\ result.ok
    /\ Len(input) = MaxLen
    /\ Len(result.out) = MaxLen + 1

---------------------------------------------------------------------------
(* C2: the returned token sequence holds Token::EOF exactly once, as its   *)
(* last element; the empty input yields exactly <<EOF>>.                   *)
C2_EofOnceAtEnd ==
    Done /\ result.ok =>
        LET t == result.out
        IN  /\ Len(t) >= 1
            /\ t[Len(t)] = Tok("EOF")
            /\ \A k \in 1..(Len(t) - 1) : t[k].type # "EOF"
            /\ (input = <<>> => t = <<Tok("EOF")>>)

C2_Witness ==
    /\ Done
    /\ result.ok
    /\ Len(result.out) >= 3
    /\ result.out[Len(result.out)] = Tok("EOF")

---------------------------------------------------------------------------
(* C4: where no recognizer succeeds, and only there, the tokenizer emits   *)
(* one Token::Illegal for exactly one byte and resumes at the next byte    *)
(* (after whitespace); tokenizing still succeeds, and the input of         *)
(* test_illegal (an unterminated quote, an empty char literal, a bare      *)
(* underscore) yields four Illegal tokens.                                 *)
C4_IllegalFallback ==
    /\ \A k \in DOMAIN spans :
          /\ NoRecognizer(TextAt(k)) <=> acc[k] = Tok("Illegal")
          /\ acc[k] = Tok("Illegal") =>
                /\ spans[k].len = 1
                /\ k = Len(spans) /\ pc = "match" =>
                      i = multispace0(Drop(TextAt(k), 1))
                /\ k < Len(spans) =>
                      AfterToken(k) = multispace0(Drop(TextAt(k), 1))
    /\ Done => result.ok
    /\ Done /\ input = test_illegal_input =>
          result.out = << Tok("Illegal"), Tok("Illegal"), Tok("Illegal"),
                          Tok("Illegal"), Tok("EOF") >>

C4_Witness ==
    /\ Done
    /\ result.ok
    /\ input = test_illegal_input
    /\ \A k \in DOMAIN spans : acc[k] = Tok("Illegal") /\ spans[k].len = 1

---------------------------------------------------------------------------
(* Integer and decimal texts, as the claims describe them                  *)

\* The length of the longest prefix of s that is an optional '-' and one
\* or more digits; 0 when there is none.
IntShapeLen(s) ==
    LET sign == IF Len(s) >= 1 /\ s[1] = Ord["-"] THEN 1 ELSE 0
        n    == SpanLen(48..57, Drop(s, sign))
    IN  IF n >= 1 THEN sign + n ELSE 0

\* The length of the longest prefix of s that is an integer text, a '.'
\* and one or more digits; 0 when there is none.
DecShapeLen(s) ==
    LET n == IntShapeLen(s)
        f == SpanLen(48..57, Drop(s, n + 1))
    IN  IF n >= 1 /\ Len(s) >= n + 1 /\ s[n + 1] = Ord["."] /\ f >= 1
        THEN n + 1 + f
        ELSE 0

\* s starts with an integer literal that is not the head of a decimal.
IntLiteralAt(s) == IntShapeLen(s) >= 1 /\ DecShapeLen(s) = 0

IntText(s) == Take(s, IntShapeLen(s))
IsNegative(text) == text[1] = Ord["-"]
DigitsOf(text) == IF IsNegative(text) THEN Drop(text, 1) ELSE text

\* The digits without leading zeros have at most 19 places and do not
\* exceed 9223372036854775807 (9223372036854775808 after a '-').
FitsI64(text) ==
    LET ds == DigitsOf(text)
        z  == SpanLen({48}, ds)
        sg == [j \in 1..(Len(ds) - z) |-> ds[j + z] - 48]
    IN  MagLeq(sg, IF IsNegative(text) THEN I64MinMag ELSE I64MaxMag)

OverflowLiteralAt(s) == IntLiteralAt(s) /\ ~FitsI64(IntText(s))

\* The number that a sequence of digit values or of digit bytes writes
\* (for at most nine digits).
RECURSIVE Decimal(_, _)
Decimal(ds, zero) ==
    IF ds = <<>> THEN 0
    ELSE 10 * Decimal(Take(ds, Len(ds) - 1), zero) + (ds[Len(ds)] - zero)

\* The integer an i64 of the model stands for (for at most nine digits).
I64ToInt(v) == IF v.neg THEN 0 - Decimal(v.mag, 0) ELSE Decimal(v.mag, 0)

TextToInt(text) ==
    IF IsNegative(text) THEN 0 - Decimal(DigitsOf(text), 48)
    ELSE Decimal(DigitsOf(text), 48)

---------------------------------------------------------------------------
(* C3 (as claimed): when the scanner meets an integer literal whose value  *)
(* does not fit in i64, tokenizing returns an error and no tokens.         *)
C3_OverflowIsError ==
    Done /\ (\E k \in DOMAIN spans : OverflowLiteralAt(TextAt(k))) =>
        ~result.ok

(* C3 (amended): the decode error of the integer recognizer is not         *)
(* reported: tokenizing returns Ok with a complete token sequence, in      *)
(* which the first byte of the literal alone is a token (Illegal for a     *)
(* digit, Minus for a leading '-') and scanning resumes at its second byte.*)
C3_OverflowIsIllegal ==
    /\ \A k \in DOMAIN spans :
          OverflowLiteralAt(TextAt(k)) =>
              /\ ~input_to_number(TextAt(k)).ok
              /\ spans[k].len = 1
              /\ acc[k] = IF IsNegative(TextAt(k)) THEN Tok("Minus")
                          ELSE Tok("Illegal")
              /\ k < Len(spans) => AfterToken(k) = Drop(TextAt(k), 1)
    /\ Done /\ (\E k \in DOMAIN spans : OverflowLiteralAt(TextAt(k))) =>
          /\ result.ok
          /\ result.out = acc \o <<Tok("EOF")>>

C3_Witness ==
    /\ Done
    /\ result.ok
    /\ \E k \in DOMAIN spans :
          /\ OverflowLiteralAt(TextAt(k))
          /\ acc[k] = Tok("Illegal")
    /\ \E k \in DOMAIN spans :
          /\ OverflowLiteralAt(TextAt(k))
          /\ acc[k] = Tok("Minus")

---------------------------------------------------------------------------
(* C8 (as claimed): a decimal text lexes to one DecimalLiteral covering    *)
(* it; an integer text not followed by '.' and a digit lexes to one        *)
(* NumericLiteral with its signed value.                                   *)
DecimalCovers(k) ==
    LET s == TextAt(k)
        n == IntShapeLen(s)
        f == SubSeq(s, n + 2, DecShapeLen(s))
        v == acc[k].val
    IN  /\ acc[k].type = "DecimalLiteral"
        /\ spans[k].len = DecShapeLen(s)
        /\ v.neg = IsNegative(s)
        /\ n <= 9 => Decimal(v.int, 0) = Decimal(DigitsOf(Take(s, n)), 48)
        /\ Len(v.frac) <= Len(f)
        /\ \A j \in 1..Len(f) :
              f[j] - 48 = IF j <= Len(v.frac) THEN v.frac[j] ELSE 0

NumericCovers(k) ==
    LET s == TextAt(k)
    IN  /\ acc[k].type = "NumericLiteral"
        /\ spans[k].len = IntShapeLen(s)
        /\ IntShapeLen(s) <= 9 => I64ToInt(acc[k].val) = TextToInt(IntText(s))

NumberExamplesHold ==
    /\ input = B(<<"1", "2", "3">>) =>
          /\ Len(acc) = 1 /\ acc[1].type = "NumericLiteral"
          /\ I64ToInt(acc[1].val) = 123
    /\ input = B(<<"-", "5">>) =>
          /\ Len(acc) = 1 /\ acc[1].type = "NumericLiteral"
          /\ I64ToInt(acc[1].val) = 0 - 5
    /\ input = B(<<"1", "2", "3", ".", "4", "5", "6">>) =>
          /\ Len(acc) = 1
          /\ acc[1] = TokV("DecimalLiteral",
                 [neg |-> FALSE, int |-> <<1, 2, 3>>, frac |-> <<4, 5, 6>>])
    /\ input = B(<<"-", "5", ".", "5">>) =>
          /\ Len(acc) = 1
          /\ acc[1] = TokV("DecimalLiteral",
                 [neg |-> TRUE, int |-> <<5>>, frac |-> <<5>>])

C8_NumbersAnyValue ==
    /\ \A k \in DOMAIN spans :
          /\ DecShapeLen(TextAt(k)) >= 1 => DecimalCovers(k)
          /\ IntLiteralAt(TextAt(k)) => NumericCovers(k)
    /\ Done => NumberExamplesHold

(* C8 (amended): the same, for an integer text whose value fits in a       *)
(* 64-bit signed integer.                                                  *)
C8_NumbersThatFit ==
    /\ \A k \in DOMAIN spans :
          /\ DecShapeLen(TextAt(k)) >= 1 => DecimalCovers(k)
          /\ IntLiteralAt(TextAt(k)) /\ FitsI64(IntText(TextAt(k))) =>
                NumericCovers(k)
    /\ Done => NumberExamplesHold

C8_Witness ==
    /\ Done
    /\ input = test_mixed_numbers_input
    /\ Len(acc) = 9
    /\ \A k \in DOMAIN spans :
          \/ DecShapeLen(TextAt(k)) >= 1 /\ DecimalCovers(k)
          \/ IntLiteralAt(TextAt(k)) /\ NumericCovers(k)

---------------------------------------------------------------------------
(* C5: where the scanner meets a two-character operator it emits that      *)
(* operator's one token for the two bytes, never the tokens of its         *)
(* one-character prefixes; an input that is exactly the operator lexes to  *)
(* its token and EOF; and its recognizer is tried before the recognizer of *)
(* every one-character operator that is its prefix.                        *)
TwoCharOperators ==
    << [text |-> B(<<"=", "=">>), tok |-> "Equal"],
       [text |-> B(<<"!", "=">>), tok |-> "NotEqual"],
       [text |-> B(<<"*", "*">>), tok |-> "Exp"],
       [text |-> B(<<">", "=">>), tok |-> "GreaterThanEqual"],
       [text |-> B(<<"<", "=">>), tok |-> "LessThanEqual"],
       [text |-> B(<<"-", ">">>), tok |-> "FunctionReturn"],
       [text |-> B(<<"&", "&">>), tok |-> "LogicAnd"],
       [text |-> B(<<"|", "|">>), tok |-> "LogicOr"],
       [text |-> B(<<"<", "<">>), tok |-> "LShift"],
       [text |-> B(<<">", ">">>), tok |-> "RShift"] >>

\* Where lex_token tries the tag t: <<recognizer, place in its table>>.
TagPositions(t) ==
    { <<j, m>> \in (DOMAIN LexTokenOrder) \X (1..15) :
        /\ m \in DOMAIN TableOf(LexTokenOrder[j])
        /\ TableOf(LexTokenOrder[j])[m].tag = t }

TriedBefore(p, q) == p[1] < q[1] \/ (p[1] = q[1] /\ p[2] < q[2])

\* Every two-character operator is tried, and before its one-byte prefix.
TwoCharTriedFirst ==
    \A j \in DOMAIN TwoCharOperators :
        LET op == TwoCharOperators[j]
        IN  /\ TagPositions(op.text) # {}
            /\ \A p \in TagPositions(op.text) :
                  \A q \in TagPositions(Take(op.text, 1)) : TriedBefore(p, q)

C5_TwoCharOperators ==
    /\ TwoCharTriedFirst
    /\ \A j \in DOMAIN TwoCharOperators :
          LET op == TwoCharOperators[j]
          IN  /\ \A k \in DOMAIN spans :
                    StartsWith(TextAt(k), op.text) =>
                        acc[k] = Tok(op.tok) /\ spans[k].len = 2
              /\ Done /\ input = op.text =>
                    result.out = <<Tok(op.tok), Tok("EOF")>>

C5_Witness ==
    /\ Done
    /\ input = B(<<"-", ">">>)
    /\ result.out = <<Tok("FunctionReturn"), Tok("EOF")>>
    /\ TagPositions(B(<<"-">>)) # {}

---------------------------------------------------------------------------
(* Identifier-shaped runs, as the claims describe them                     *)

Letters == (65..90) \cup (97..122)
LettersDigits == Letters \cup (48..57)
IdentBytes == LettersDigits \cup {95}

\* The count of underscores s starts with.
UnderscoreRun(s) == SpanLen({95}, s)

\* s starts with a letter, or with underscores and then a letter or digit.
IdentStartsAt(s) ==
    /\ Len(s) >= 1
    /\ \/ s[1] \in Letters
       \/ /\ UnderscoreRun(s) >= 1
          /\ Len(s) > UnderscoreRun(s)
          /\ s[UnderscoreRun(s) + 1] \in LettersDigits

\* The longest identifier-shaped run s starts with (<<>>: none).
IdentRun(s) == IF IdentStartsAt(s) THEN Take(s, SpanLen(IdentBytes, s)) ELSE <<>>

Keywords ==
    << [word |-> B(<<"l", "e", "t">>), tok |-> Tok("Let")],
       [word |-> B(<<"m", "u", "t">>), tok |-> Tok("Mut")],
       [word |-> B(<<"f", "n">>), tok |-> Tok("Function")],
       [word |-> B(<<"i", "f">>), tok |-> Tok("If")],
       [word |-> B(<<"e", "l", "i", "f">>), tok |-> Tok("ElseIf")],
       [word |-> B(<<"e", "l", "s", "e">>), tok |-> Tok("Else")],
       [word |-> B(<<"w", "h", "i", "l", "e">>), tok |-> Tok("While")],
       [word |-> B(<<"r", "e", "t", "u", "r", "n">>), tok |-> Tok("Return")],
       [word |-> B(<<"c", "o", "n", "t", "i", "n", "u", "e">>),
        tok |-> Tok("Continue")],
       [word |-> B(<<"b", "r", "e", "a", "k">>), tok |-> Tok("Break")],
       [word |-> B(<<"t", "r", "u", "e">>), tok |-> TokV("BoolLiteral", TRUE)],
       [word |-> B(<<"f", "a", "l", "s", "e">>),
        tok |-> TokV("BoolLiteral", FALSE)] >>

KeywordTypes == {Keywords[j].tok.type : j \in DOMAIN Keywords}

Lettuce == B(<<"l", "e", "t", "t", "u", "c", "e">>)

---------------------------------------------------------------------------
(* C6: an identifier-shaped run lexes to a keyword token or a BoolLiteral  *)
(* exactly when the whole run is that reserved word; any other run, such   *)
(* as lettuce, lexes to one Ident carrying the whole run.                  *)
C6_KeywordIsWholeRun ==
    /\ \A k \in DOMAIN spans :
          LET run == IdentRun(TextAt(k))
              kw  == {j \in DOMAIN Keywords : Keywords[j].word = run}
          IN  /\ run # <<>> =>
                    /\ spans[k].len = Len(run)
                    /\ kw = {} => acc[k] = TokV("Ident", run)
                    /\ \A j \in kw : acc[k] = Keywords[j].tok
              /\ acc[k].type \in KeywordTypes =>
                    \E j \in kw : acc[k] = Keywords[j].tok
    /\ Done /\ input = Lettuce =>
          result.out = <<TokV("Ident", Lettuce), Tok("EOF")>>

C6_Witness ==
    /\ Done
    /\ Len(acc) = 2
    /\ acc[1] = TokV("Ident", B(<<"_">>) \o Lettuce)
    /\ acc[2] = Tok("Plus")

---------------------------------------------------------------------------
(* C7: a token is an identifier (or a reserved word) exactly where the     *)
(* text starts with a letter, or with underscores followed by a letter or  *)
(* digit, and it then covers the letters, digits and underscores that      *)
(* follow; underscores not followed by a letter or digit are never part    *)
(* of an Ident: each of them becomes an Illegal token.                     *)
IdentLike == KeywordTypes \cup {"Ident"}

C7_IdentifierShape ==
    \A k \in DOMAIN spans :
        LET s == TextAt(k)
            u == UnderscoreRun(s)
            n == spans[k].len
        IN  /\ acc[k].type \in IdentLike <=> IdentStartsAt(s)
            /\ acc[k].type = "Ident" =>
                  /\ acc[k].val = Take(s, n)
                  /\ \A j \in 1..n : s[j] \in IdentBytes
                  /\ Len(s) > n => s[n + 1] \notin IdentBytes
            /\ u >= 1 /\ ~IdentStartsAt(s) =>
                  /\ acc[k] = Tok("Illegal")
                  /\ n = 1
                  /\ Done => k + u - 1 <= Len(spans)
                  /\ \A m \in 1..(u - 1) :
                        k + m <= Len(spans) =>
                            /\ acc[k + m] = Tok("Illegal")
                            /\ spans[k + m].at = spans[k].at + m

C7_Witness ==
    /\ Done
    /\ input = B(<<"_", "_", " ", "l">>)
    /\ acc = <<Tok("Illegal"), Tok("Illegal"), TokV("Ident", B(<<"l">>))>>

---------------------------------------------------------------------------
(* UTF-8 as the claims describe it: a span encodes one scalar when it has  *)
(* the lead and continuation bits of its length and the scalar is neither  *)
(* over-long, a surrogate, nor above U+10FFFF.                             *)

Continuation(b) == b \in 128..191

ScalarOf(d) ==
    CASE Len(d) = 1 -> d[1]
      [] Len(d) = 2 -> (d[1] % 32) * 64 + (d[2] % 64)
      [] Len(d) = 3 -> (d[1] % 16) * 4096 + (d[2] % 64) * 64 + (d[3] % 64)
      [] Len(d) = 4 -> (d[1] % 8) * 262144 + (d[2] % 64) * 4096
                       + (d[3] % 64) * 64 + (d[4] % 64)
      [] OTHER -> 0

OneScalar(d) ==
    /\ Len(d) \in 1..4
    /\ \A j \in 2..Len(d) : Continuation(d[j])
    /\ CASE Len(d) = 1 -> d[1] \in 0..127
         [] Len(d) = 2 -> d[1] \in 192..223 /\ ScalarOf(d) >= 128
         [] Len(d) = 3 -> /\ d[1] \in 224..239
                          /\ ScalarOf(d) >= 2048
                          /\ ScalarOf(d) \notin 55296..57343
         [] Len(d) = 4 -> /\ d[1] \in 240..247
                          /\ ScalarOf(d) \in 65536..1114111

RECURSIVE ValidUtf8(_)
ValidUtf8(d) ==
    \/ d = <<>>
    \/ \E w \in 1..Min({4, Len(d)}) :
          OneScalar(Take(d, w)) /\ ValidUtf8(Drop(d, w))

---------------------------------------------------------------------------
(* String literals as C9 describes them                                    *)

\* The count of backslashes that stand directly before s[j] in the body.
BackslashesBefore(s, j) ==
    CHOOSE m \in 0..(j - 2) :
        /\ \A x \in 1..m : s[j - x] = 92
        /\ m = j - 2 \/ s[j - m - 1] # 92

\* s[j] is not the second byte of an escape pair.
Unescaped(s, j) == BackslashesBefore(s, j) % 2 = 0

\* The places where the body of the string that starts s could end.
ClosingQuotes(s) == {j \in 2..Len(s) : s[j] = 34 /\ Unescaped(s, j)}

\* s starts with a quote, plain bytes and escape pairs, and a quote.
StringShape(s) ==
    /\ Len(s) >= 2 /\ s[1] = 34
    /\ ClosingQuotes(s) # {}
    /\ \A j \in 2..(Min(ClosingQuotes(s)) - 1) :
          s[j] = 92 /\ Unescaped(s, j) => s[j + 1] \in {34, 39, 92}

\* The body up to the closing quote at n, without the escaping backslashes.
StrippedBody(s, n) ==
    LET keep == {j \in 2..(n - 1) : ~(s[j] = 92 /\ Unescaped(s, j))}
    IN  [x \in 1..Cardinality(keep) |->
            s[CHOOSE j \in keep : Cardinality({y \in keep : y <= j}) = x]]

---------------------------------------------------------------------------
(* C9: a text that is a quote, then plain bytes and the two-byte escapes   *)
(* of the quote, the apostrophe and the backslash, then a quote, lexes to  *)
(* one StringLiteral whose text is the body with the escaping backslashes  *)
(* stripped; a backslash before any other byte, or a stripped body that is *)
(* not valid UTF-8, gives no StringLiteral for that text.                  *)
C9_StringLiteral ==
    \A k \in DOMAIN spans :
        LET s == TextAt(k)
        IN  /\ acc[k].type = "StringLiteral" => s[1] = 34
            /\ s[1] = 34 =>
                  IF StringShape(s)
                     /\ ValidUtf8(StrippedBody(s, Min(ClosingQuotes(s))))
                  THEN /\ acc[k] = TokV("StringLiteral",
                                        StrippedBody(s, Min(ClosingQuotes(s))))
                       /\ spans[k].len = Min(ClosingQuotes(s))
                  ELSE /\ acc[k] = Tok("Illegal")
                       /\ spans[k].len = 1

C9_Witness ==
    /\ Done
    /\ input = <<34, 92, 34, 195, 164, 92, 92, 34>>
    /\ acc = <<TokV("StringLiteral", <<34, 195, 164, 92>>)>>

---------------------------------------------------------------------------
(* C10: the decoder of character literals accepts the decoded span exactly *)
(* when it is 1 to 4 bytes that encode one Unicode scalar, and yields that *)
(* scalar as the CharLiteral; an empty span, a span of more than 4 bytes,  *)
(* invalid UTF-8 and a span of several scalars give no CharLiteral.        *)

\* The span handed to the decoder for the text of token k.
CharSpanAt(k) == delimited_body(39, 39, TextAt(k))

C10_CharDecoder ==
    \A k \in DOMAIN spans :
        LET d == CharSpanAt(k)
        IN  /\ acc[k].type = "CharLiteral" => d.ok
            /\ d.ok =>
                  /\ convert_slice_to_char(d.out).ok <=> OneScalar(d.out)
                  /\ IF OneScalar(d.out)
                     THEN /\ convert_slice_to_char(d.out).out = ScalarOf(d.out)
                          /\ acc[k] = TokV("CharLiteral", ScalarOf(d.out))
                          /\ spans[k].len = Len(TextAt(k)) - Len(d.rest)
                     ELSE /\ acc[k] = Tok("Illegal")
                          /\ spans[k].len = 1

C10_Witness ==
    /\ Done
    /\ input = <<39, 226, 157, 164, 39>>
    /\ acc = <<TokV("CharLiteral", 10084)>>

---------------------------------------------------------------------------
(* Views, as the claims speak of them                                      *)

\* The tokens a view exposes, and how many they are (input_len).
Exposed(v) == v.tokens
input_len(v) == Len(v.tokens)

\* The tokens of the sequence t from offset a up to, not including, b.
Window(t, a, b) == [x \in 1..(b - a) |-> t[a + x]]

\* The token sequence that was given to Tokens::new.
Sequence == result.out

---------------------------------------------------------------------------
(* C11: take_split(k) with 0 <= k <= len(v) returns the pair (prefix,      *)
(* suffix) in that order: the prefix exposes what take(k) exposes, the     *)
(* first k tokens of v; the suffix exposes the other len(v) - k tokens;    *)
(* and the prefix's tokens followed by the suffix's are v's tokens.        *)
C11_TakeSplit ==
    call.op = "take_split" /\ call.a <= input_len(call.self) =>
        LET v == call.self
            k == call.a
        IN  /\ ~call.panicked
            /\ Len(call.out) = 2
            /\ ~Tokens_take(v, k).panicked
            /\ Exposed(call.out[1]) = Exposed(Tokens_take(v, k).out[1])
            /\ Exposed(call.out[1]) = Window(Exposed(v), 0, k)
            /\ input_len(call.out[2]) = input_len(v) - k
            /\ Exposed(call.out[2]) = Window(Exposed(v), k, input_len(v))
            /\ Exposed(call.out[1]) \o Exposed(call.out[2]) = Exposed(v)

C11_Witness ==
    /\ call.op = "take_split"
    /\ call.a = 1
    /\ input_len(call.self) = 3
    /\ ~call.panicked
    /\ Exposed(call.out[1]) # Exposed(call.out[2])
    /\ view = call.out[2]

---------------------------------------------------------------------------
(* C12: every view reached from Tokens::new(seq) by take, take_split and   *)
(* slice has start <= end <= len(seq); the tokens a returned view exposes  *)
(* are a contiguous sub-range of the tokens of the view it was derived     *)
(* from; and no view exposes a token outside seq.                          *)

\* There is a view: Tokens::new has been called.
Viewing == pc \in {"view", "panic"}

\* The tokens of w are the tokens of v from some offset a up to some b.
SubRangeOf(w, v) ==
    \E a \in 0..input_len(v) : \E b \in a..input_len(v) :
        Exposed(w) = Window(Exposed(v), a, b)

\* The slice of w lies where the ghost offset says, inside seq.
InsideSequence(w) ==
    /\ w.base + input_len(w) <= Len(Sequence)
    /\ Exposed(w) = Window(Sequence, w.base, w.base + input_len(w))

C12_ViewsNarrow ==
    Viewing =>
        /\ view.start <= view.end
        /\ view.end <= Len(Sequence)
        /\ InsideSequence(view)
        /\ \A j \in DOMAIN call.out :
              /\ call.out[j].start <= call.out[j].end
              /\ call.out[j].end <= Len(Sequence)
              /\ InsideSequence(call.out[j])
              /\ call.op # "new" =>
                    /\ SubRangeOf(call.out[j], call.self)
                    /\ call.out[j].base >= call.self.base
                    /\ call.out[j].base + input_len(call.out[j])
                          <= call.self.base + input_len(call.self)

C12_Witness ==
    /\ call.op = "slice"
    /\ ~call.panicked
    /\ call.self.start > 0
    /\ view.start > call.self.start
    /\ view.end < call.self.end
    /\ input_len(view) = 1

---------------------------------------------------------------------------
(* C13: slicing a view by a range that lies within it never panics; and    *)
(* slicing by a.. or by ..b with a bound above the view's length clamps    *)
(* the bound to the view and returns a view, possibly empty, not a panic.  *)

\* The last call was a slice whose range lies within the view.
SliceWithin ==
    \/ call.op = "slice" /\ call.a <= call.b /\ call.b <= input_len(call.self)
    \/ call.op = "slice_from" /\ call.a <= input_len(call.self)
    \/ call.op = "slice_to" /\ call.b <= input_len(call.self)
    \/ call.op = "slice_full"

\* The last call was a.. or ..b with the bound above the view's length.
SliceBeyond ==
    \/ call.op = "slice_from" /\ call.a > input_len(call.self)
    \/ call.op = "slice_to" /\ call.b > input_len(call.self)

\* The claim as it stands: beyond the view the bound is clamped.
C13_SliceClamps ==
    /\ SliceWithin => ~call.panicked
    /\ SliceBeyond =>
          /\ ~call.panicked
          /\ Len(call.out) = 1
          /\ call.op = "slice_from" => Exposed(call.out[1]) = <<>>
          /\ call.op = "slice_to" => Exposed(call.out[1]) = Exposed(call.self)

\* What the code does: within the view a slice returns the range asked
\* for; beyond the view a.. and ..b panic.
C13_SliceBeyondPanics ==
    /\ SliceWithin =>
          /\ ~call.panicked
          /\ call.op = "slice" =>
                Exposed(call.out[1]) = Window(Exposed(call.self), call.a, call.b)
          /\ call.op = "slice_from" =>
                Exposed(call.out[1])
                    = Window(Exposed(call.self), call.a, input_len(call.self))
          /\ call.op = "slice_to" =>
                Exposed(call.out[1]) = Window(Exposed(call.self), 0, call.b)
          /\ call.op = "slice_full" => call.out[1] = call.self
    /\ SliceBeyond => call.panicked /\ pc = "panic"

C13_Witness ==
    /\ call.op = "slice_from"
    /\ input_len(call.self) = 2
    /\ call.a = 3
    /\ call.panicked
    /\ pc = "panic"

---------------------------------------------------------------------------
(* C14: start and end of a view are the offsets of its window in the token *)
(* sequence it was created from: every view reached from Tokens::new(seq)  *)
(* by take, take_split and slice exposes exactly seq[start..end].          *)

\* The claim as it stands.
C14_OffsetsInSequence ==
    Viewing => Exposed(view) = Window(Sequence, view.start, view.end)

SliceOps == {"slice", "slice_from", "slice_to", "slice_full"}

\* What the code does: take and take_split (and new) count start and end
\* from the slice they return; the slices keep counting from where the
\* view they are called on counts from.
C14_OffsetsResetByTake ==
    Viewing =>
        /\ view.start <= view.base
        /\ \A j \in DOMAIN call.out :
              /\ call.op \in {"new", "take", "take_split"} =>
                    /\ call.out[j].start = 0
                    /\ call.out[j].end = input_len(call.out[j])
              /\ call.op \in SliceOps =>
                    call.out[j].base - call.out[j].start
                        = call.self.base - call.self.start

C14_Witness ==
    /\ call.op = "take_split"
    /\ ~call.panicked
    /\ call.a = 1
    /\ view = call.out[2]
    /\ view.start = 0
    /\ view.base = 1
    /\ input_len(view) = 2
    /\ Exposed(view) # Window(Sequence, view.start, view.end)

---------------------------------------------------------------------------
(* C15 (as claimed): a '-' directly before a digit is always lexed as the  *)
(* sign of a numeric literal, whatever token stands before it, so 5-3 is   *)
(* NumericLiteral(5), NumericLiteral(-3), EOF; and Minus is emitted only   *)
(* for a '-' that is followed by neither a digit nor '>'.                  *)

\* s starts with '-' and a digit.
SignAtDigit(s) == Len(s) >= 2 /\ s[1] = 45 /\ s[2] \in 48..57

\* s starts with '-' and '>'.
ArrowAt(s) == Len(s) >= 2 /\ s[1] = 45 /\ s[2] = 62

\* The k-th token is the literal, sign included, that the text starts with.
SignedLiteralCovers(k) ==
    IF DecShapeLen(TextAt(k)) >= 1 THEN DecimalCovers(k) ELSE NumericCovers(k)

FiveMinusThree ==
    Done /\ input = B(<<"5", "-", "3">>) =>
        /\ Len(result.out) = 3
        /\ result.out[1].type = "NumericLiteral"
        /\ I64ToInt(result.out[1].val) = 5
        /\ result.out[2].type = "NumericLiteral"
        /\ I64ToInt(result.out[2].val) = 0 - 3
        /\ result.out[3] = Tok("EOF")

C15_MinusBeforeDigitIsSign ==
    /\ \A k \in DOMAIN spans :
          /\ SignAtDigit(TextAt(k)) => SignedLiteralCovers(k)
          /\ acc[k] = Tok("Minus") =>
                /\ TextAt(k)[1] = 45
                /\ ~SignAtDigit(TextAt(k))
                /\ ~ArrowAt(TextAt(k))
    /\ FiveMinusThree

(* C15 (amended): the same, unless the '-' and the digits are an integer   *)
(* literal that does not fit in a 64-bit signed integer: the '-' of such a *)
(* literal is lexed as Minus.                                              *)
C15_MinusBeforeDigitThatFits ==
    /\ \A k \in DOMAIN spans :
          /\ SignAtDigit(TextAt(k)) /\ ~OverflowLiteralAt(TextAt(k)) =>
                SignedLiteralCovers(k)
          /\ SignAtDigit(TextAt(k)) /\ OverflowLiteralAt(TextAt(k)) =>
                acc[k] = Tok("Minus") /\ spans[k].len = 1
          /\ acc[k] = Tok("Minus") =>
                /\ TextAt(k)[1] = 45
                /\ SignAtDigit(TextAt(k)) => OverflowLiteralAt(TextAt(k))
                /\ ~ArrowAt(TextAt(k))
    /\ FiveMinusThree

C15_Witness ==
    /\ Done
    /\ input = B(<<"5", " ", "-", "5">>)
    /\ Len(acc) = 2
    /\ acc[2].type = "NumericLiteral"
    /\ I64ToInt(acc[2].val) = 0 - 5
    /\ spans[2].at = 2

---------------------------------------------------------------------------
(* C16: every view reached from Tokens::new by take, take_split and slice  *)
(* calls that do not panic has end - start equal to the count of tokens it *)
(* exposes (input_len); the slice a.. takes end - start for the length of  *)
(* the view and so reaches to the view's last token.                       *)
C16_EndMinusStartIsLen ==
    Viewing =>
        /\ view.start <= view.end
        /\ view.end - view.start = input_len(view)
        /\ \A j \in DOMAIN call.out :
              /\ call.out[j].start <= call.out[j].end
              /\ call.out[j].end - call.out[j].start = input_len(call.out[j])
        /\ call.op = "slice_from" /\ ~call.panicked =>
              Exposed(call.out[1])
                  = Window(Exposed(call.self), call.a, input_len(call.self))

C16_Witness ==
    /\ call.op = "slice_from"
    /\ ~call.panicked
    /\ call.self.start = 1
    /\ call.a = 1
    /\ view.start = 2
    /\ view.end = 4
    /\ input_len(view) = 2

=============================================================================
